---------------------------- MODULE Spec2Model ----------------------------
(***************************************************************************)
(* A model of the fixstr crate: FixStr<N>, a fixed-capacity string kept in *)
(* an inline buffer of N octets plus a one-octet length field.             *)
(*                                                                         *)
(* A text (&str, String) is the sequence of its UTF-8 octets.  A value of  *)
(* FixStr<N> is the record of its three fields.  The library is pure; the  *)
(* state machine is a program that uses it: it binds values to two local   *)
(* variables through the constructors, copies them, and calls the          *)
(* accessors, the conversions and the derived comparisons on them.         *)
(***************************************************************************)
EXTENDS Integers, Sequences, FiniteSets

VARIABLES N, val, src, res, pc

vars == <<N, val, src, res, pc>>

(***************************************************************************)
(* Bounds of the model.                                                    *)
(***************************************************************************)
\* the longest short input text, in octets
MaxLen == 2
\* the largest small capacity
MaxCap == 2

\* u8::MAX, the ceiling of the length field
U8Max == 255

(***************************************************************************)
(* Texts: valid UTF-8, as the type &str guarantees.                        *)
(***************************************************************************)
\* the scalar values the inputs are made of: NUL, 'a', and U+00E9 (e acute)
Chars == {0, 97, 233}

\* the UTF-8 encoding of one scalar value (one to three octets)
Utf8Encode(cp) ==
    IF cp < 128 THEN <<cp>>
    ELSE IF cp < 2048 THEN <<192 + (cp \div 64), 128 + (cp % 64)>>
    ELSE <<224 + (cp \div 4096), 128 + ((cp \div 64) % 64), 128 + (cp % 64)>>

RECURSIVE Encode(_)
Encode(cs) == IF cs = <<>> THEN <<>> ELSE Utf8Encode(Head(cs)) \o Encode(Tail(cs))

Repeat(x, n) == [i \in 1..n |-> x]

\* every text of at most MaxLen octets over Chars
ShortTexts ==
    LET seqs == UNION {[1..k -> Chars] : k \in 0..MaxLen}
    IN  {t \in {Encode(cs) : cs \in seqs} : Len(t) <= MaxLen}

\* texts at and just above the ceiling of the length field
LongTexts == {Repeat(97, U8Max), Repeat(97, U8Max + 1)}

Texts == ShortTexts \cup LongTexts

\* the capacities the type is instantiated at, the ones around u8::MAX included
Caps == (0..MaxCap) \cup {U8Max, U8Max + 1}

Slots == {"a", "b"}

(***************************************************************************)
(* Option, Result and the formatting tokens.                               *)
(***************************************************************************)
None == [some |-> FALSE]
Some(v) == [some |-> TRUE, v |-> v]

Ok(v) == [ok |-> TRUE, v |-> v]
Err(e) == [ok |-> FALSE, e |-> e]

\* the pieces a formatter writes: a literal of the format string, a text
\* written with {} (its octets), a text written with {:?} (quoted), an
\* integer written in decimal, an array written with {:?}
Lit(s) == [k |-> "lit", s |-> s, b |-> <<>>]
Str(b) == [k |-> "str", s |-> "", b |-> b]
Quoted(b) == [k |-> "quoted", s |-> "", b |-> b]
Int10(n) == [k |-> "int", s |-> "", b |-> <<n>>]
List(b) == [k |-> "list", s |-> "", b |-> b]

(***************************************************************************)
(* impl<const N: usize> FixStr<N>                                          *)
(***************************************************************************)
FixStr(inline, len) == [inline |-> inline, len |-> len, marker |-> "PhantomData"]

\* u8::try_from(n).ok()
u8_try_from(n) == IF n <= U8Max THEN Some(n) ELSE None

\* format!("String '{s}' (len={}) exceeds capacity {N}", s.len())
exceeds_capacity(s) ==
    <<Lit("String '"), Str(s), Lit("' (len="), Int10(Len(s)),
      Lit(") exceeds capacity "), Int10(N)>>

new_off_by_one(s) ==
    IF Len(s) >= N \/ Len(s) > U8Max THEN None
    ELSE Some(FixStr([i \in 1..N |-> IF i <= Len(s) THEN s[i] ELSE 0], Len(s)))

new_pad_ff(s) ==
    IF Len(s) > N \/ Len(s) > U8Max THEN None
    ELSE Some(FixStr([i \in 1..N |-> IF i <= Len(s) THEN s[i] ELSE 255], Len(s)))

new_wrapping(s) ==
    IF Len(s) > N THEN None
    ELSE Some(FixStr([i \in 1..N |-> IF i <= Len(s) THEN s[i] ELSE 0], Len(s) % (U8Max + 1)))

\* FixStr::new
new(s) ==
    IF Len(s) > N \/ Len(s) > U8Max THEN None
    ELSE LET zeroed == [i \in 1..N |-> 0]
             buffer == [i \in 1..N |-> IF i <= Len(s) THEN s[i] ELSE zeroed[i]]
             len    == u8_try_from(Len(s))
         IN  IF len.some THEN Some(FixStr(buffer, len.v)) ELSE None

new_unchecked_lenient(s) ==
    IF new(s).some THEN [panic |-> FALSE, v |-> new(s).v]
    ELSE [panic |-> FALSE, v |-> FixStr([i \in 1..N |-> 0], 0)]

\* Self::new(s).unwrap_or_else(|| panic!(...))
new_unchecked(s) ==
    LET r == new(s)
    IN  IF r.some THEN [panic |-> FALSE, v |-> r.v]
        ELSE [panic |-> TRUE, msg |-> exceeds_capacity(s)]

as_str_whole(v) == v.inline

\* from_utf8_unchecked(&self.inline[..self.len as usize])
as_str(v) == SubSeq(v.inline, 1, v.len)

char_len_octets(v) == Len(as_str(v))

\* self.as_str().chars().count(): the octets that do not continue a character
char_len(v) ==
    LET s == as_str(v)
    IN  Cardinality({i \in 1..Len(s) : s[i] \div 64 # 2})

len(v) == v.len

is_empty(v) == len(v) = 0

capacity(v) == N

try_from_str_no_capacity(s) ==
    IF new(s).some THEN Ok(new(s).v)
    ELSE Err(<<Lit("String '"), Str(s), Lit("' (len="), Int10(Len(s)), Lit(") is too long")>>)

\* impl TryFrom<&str>: Self::new(s).ok_or(format!(...))
try_from_str(s) ==
    LET r == new(s)
    IN  IF r.some THEN Ok(r.v) ELSE Err(exceeds_capacity(s))

\* impl TryFrom<String>: Self::try_from(s.as_str())
try_from_string(s) == try_from_str(s)

\* impl From<FixStr<N>> for String: String::from(s.as_str())
string_from(v) == as_str(v)

\* impl AsRef<str>
as_ref(v) == as_str(v)

\* impl Display: write!(f, "{}", self.as_str())
display_fmt(v) == <<Str(as_str(v))>>

\* ToString::to_string, through Display: the text the formatter wrote
to_string(v) == as_str(v)


(***************************************************************************)
(* #[derive(Clone, Copy, Debug, Hash, Eq, Ord, PartialEq, PartialOrd)]     *)
(***************************************************************************)
\* the traits FixStr<n> implements: the derive list and the impl blocks, all
\* of them generic in the capacity
Traits(n) ==
    {"Clone", "Copy", "Debug", "Hash", "Eq", "Ord", "PartialEq", "PartialOrd",
     "TryFrom<&str>", "TryFrom<String>", "Into<String>", "AsRef<str>", "Display"}

\* Ord of [u8] and of str: the first differing octet decides, then the length
slice_cmp(x, y) ==
    LET l    == IF Len(x) < Len(y) THEN Len(x) ELSE Len(y)
        diff == {i \in 1..l : x[i] # y[i]}
        d    == CHOOSE i \in diff : \A j \in diff : i <= j
    IN  IF diff # {} THEN (IF x[d] < y[d] THEN "Less" ELSE "Greater")
        ELSE IF Len(x) < Len(y) THEN "Less"
        ELSE IF Len(x) > Len(y) THEN "Greater"
        ELSE "Equal"

int_cmp(m, n) == IF m < n THEN "Less" ELSE IF m > n THEN "Greater" ELSE "Equal"

derived_eq_inline_only(x, y) == x.inline = y.inline

\* derived PartialEq: every field equal, in declaration order
derived_eq(x, y) == x.inline = y.inline /\ x.len = y.len /\ x.marker = y.marker

\* derived Ord: the first field that differs decides, in declaration order
derived_cmp(x, y) ==
    LET c == slice_cmp(x.inline, y.inline)
    IN  IF c # "Equal" THEN c ELSE int_cmp(x.len, y.len)

\* derived Hash: what is fed to the hasher, field by field: the array as a
\* slice (its length, then its octets), the length octet; the marker feeds
\* nothing
derived_hash(v) == <<Len(v.inline)>> \o v.inline \o <<v.len>>

\* derived Debug of a struct with named fields
derived_debug(v) ==
    <<Lit("FixStr"), Lit(" { "),
      Lit("inline: "), List(v.inline), Lit(", "),
      Lit("len: "), Int10(v.len), Lit(", "),
      Lit("_marker: "), Lit("PhantomData<[u8; "), Int10(N), Lit("]>"),
      Lit(" }")>>

(***************************************************************************)
(* The program: two local bindings, let a and let b, of type FixStr<N>.    *)
(* A binding is made once, by a constructor call that returns a value or   *)
(* by a copy of the other; the calls on a bound value follow in any order. *)
(*   val[x]  the value bound to x, None while x is unbound                 *)
(*   src[x]  the text the value of x was constructed from                  *)
(*   res     the last call and what it returned                            *)
(*   pc      "run", or "panicked" once a call has panicked                 *)
(***************************************************************************)
Init ==
    /\ N \in Caps
    /\ val = [x \in Slots |-> None]
    /\ src = [x \in Slots |-> <<>>]
    /\ res = [op |-> "start"]
    /\ pc = "run"

\* binds x to v, constructed from s
Bind(x, s, v) ==
    /\ val' = [val EXCEPT ![x] = Some(v)]
    /\ src' = [src EXCEPT ![x] = s]

\* let x = FixStr::new(s)?, the binding made only when new returns Some
New(x, s) ==
    /\ pc = "run"
    /\ ~val[x].some
    /\ LET r == new(s)
       IN  /\ res' = [op |-> "new", slot |-> x, input |-> s, out |-> r]
           /\ IF r.some THEN Bind(x, s, r.v) ELSE UNCHANGED <<val, src>>
    /\ UNCHANGED <<N, pc>>

\* let x = FixStr::new_unchecked(s)
NewUnchecked(x, s) ==
    /\ pc = "run"
    /\ ~val[x].some
    /\ LET r == new_unchecked(s)
       IN  /\ res' = [op |-> "new_unchecked", slot |-> x, input |-> s, out |-> r]
           /\ IF r.panic
              THEN pc' = "panicked" /\ UNCHANGED <<val, src>>
              ELSE pc' = pc /\ Bind(x, s, r.v)
    /\ UNCHANGED N

\* let x = FixStr::try_from(s)?, s a &str
TryFromStr(x, s) ==
    /\ pc = "run"
    /\ ~val[x].some
    /\ LET r == try_from_str(s)
       IN  /\ res' = [op |-> "try_from_str", slot |-> x, input |-> s, out |-> r]
           /\ IF r.ok THEN Bind(x, s, r.v) ELSE UNCHANGED <<val, src>>
    /\ UNCHANGED <<N, pc>>

\* the same with s a String
TryFromString(x, s) ==
    /\ pc = "run"
    /\ ~val[x].some
    /\ LET r == try_from_string(s)
       IN  /\ res' = [op |-> "try_from_string", slot |-> x, input |-> s, out |-> r]
           /\ IF r.ok THEN Bind(x, s, r.v) ELSE UNCHANGED <<val, src>>
    /\ UNCHANGED <<N, pc>>

\* let y = x (the type is Copy)
Copy(x, y) ==
    /\ pc = "run"
    /\ x # y
    /\ val[x].some
    /\ ~val[y].some
    /\ val' = [val EXCEPT ![y] = val[x]]
    /\ src' = [src EXCEPT ![y] = src[x]]
    /\ res' = [op |-> "copy", slot |-> y]
    /\ UNCHANGED <<N, pc>>

\* a call op(&x) of an accessor or a conversion, returning out
Call(op, x, out) ==
    /\ pc = "run"
    /\ val[x].some
    /\ res' = [op |-> op, slot |-> x, out |-> out]
    /\ UNCHANGED <<N, val, src, pc>>

AsStr(x) == Call("as_str", x, as_str(val[x].v))
CharLen(x) == Call("char_len", x, char_len(val[x].v))
LenOf(x) == Call("len", x, len(val[x].v))
IsEmpty(x) == Call("is_empty", x, is_empty(val[x].v))
Capacity(x) == Call("capacity", x, capacity(val[x].v))
IntoString(x) == Call("into_string", x, string_from(val[x].v))
AsRef(x) == Call("as_ref", x, as_ref(val[x].v))
Display(x) == Call("display", x, display_fmt(val[x].v))
Debug(x) == Call("debug", x, derived_debug(val[x].v))
Hash(x) == Call("hash", x, derived_hash(val[x].v))

Other(x) == CHOOSE y \in Slots : y # x

\* x == y and x.cmp(&y)
Eq(x) == val[Other(x)].some /\ Call("eq", x, derived_eq(val[x].v, val[Other(x)].v))
Cmp(x) == val[Other(x)].some /\ Call("cmp", x, derived_cmp(val[x].v, val[Other(x)].v))

Next ==
    \/ \E x \in Slots, s \in Texts : New(x, s)
    \/ \E x \in Slots, s \in Texts : NewUnchecked(x, s)
    \/ \E x \in Slots, s \in Texts : TryFromStr(x, s)
    \/ \E x \in Slots, s \in Texts : TryFromString(x, s)
    \/ \E x \in Slots, y \in Slots : Copy(x, y)
    \/ \E x \in Slots : AsStr(x)
    \/ \E x \in Slots : CharLen(x)
    \/ \E x \in Slots : LenOf(x)
    \/ \E x \in Slots : IsEmpty(x)
    \/ \E x \in Slots : Capacity(x)
    \/ \E x \in Slots : IntoString(x)
    \/ \E x \in Slots : AsRef(x)
    \/ \E x \in Slots : Display(x)
    \/ \E x \in Slots : Debug(x)
    \/ \E x \in Slots : Hash(x)
    \/ \E x \in Slots : Eq(x)
    \/ \E x \in Slots : Cmp(x)

Spec == Init /\ [][Next]_vars

(***************************************************************************)
(* The properties.                                                         *)
(***************************************************************************)
Bound(x) == val[x].some
V(x) == val[x].v

\* str::cmp of two texts
str_cmp(s, t) == slice_cmp(s, t)

\* the last call was op, a constructor call
Called(op) == res.op = op

\* C1: for every capacity N, those of 256 and more included, new(s) is Some
\* exactly when the octet length of s is at most N and at most 255.
C1_NewCapacityBoundary ==
    Called("new") =>
        (res.out.some <=> (Len(res.input) <= N /\ Len(res.input) <= U8Max))

\* a text of more than 255 octets that fits a capacity of 256 is refused
C1_Witness ==
    /\ Called("new")
    /\ N > U8Max
    /\ Len(res.input) > U8Max
    /\ Len(res.input) <= N
    /\ ~res.out.some

\* C2 as stated: for every N and every text t of at most N octets, new(t)
\* is a value, and String::from and as_str of it give back t.
C2_RoundTripAnyLength ==
    (Called("new") /\ Len(res.input) <= N) =>
        /\ res.out.some
        /\ string_from(res.out.v) = res.input
        /\ as_str(res.out.v) = res.input

\* C2, amended: for every N and every text t of at most N and at most 255
\* octets, new(t) is a value, and String::from and as_str of it (of the value
\* new returned, and of the bound value the program calls them on) give
\* back t.
C2_RoundTrip ==
    /\ (Called("new") /\ Len(res.input) <= N /\ Len(res.input) <= U8Max) =>
          /\ res.out.some
          /\ string_from(res.out.v) = res.input
          /\ as_str(res.out.v) = res.input
    /\ Called("into_string") => res.out = src[res.slot]
    /\ Called("as_str") => res.out = src[res.slot]

\* a non-empty text shorter than the buffer came back from the conversion
C2_Witness ==
    /\ Called("into_string")
    /\ res.out = src[res.slot]
    /\ Len(res.out) > 0
    /\ Len(res.out) < N

\* C3: two constructed values of one capacity are == exactly when their
\* as_str() are equal, and values of equal content feed the hasher the same
\* data.
C3_EqHashByContent ==
    /\ Called("eq") =>
          (res.out <=> (as_str(V(res.slot)) = as_str(V(Other(res.slot)))))
    /\ (Bound("a") /\ Bound("b")) =>
          /\ derived_eq(V("a"), V("b")) <=> (as_str(V("a")) = as_str(V("b")))
          /\ (as_str(V("a")) = as_str(V("b"))) =>
                derived_hash(V("a")) = derived_hash(V("b"))

\* two values with the same buffer and different contents ("a" and "a\0")
\* were compared and found different
C3_Witness ==
    /\ Called("eq")
    /\ ~res.out
    /\ V("a").inline = V("b").inline
    /\ as_str(V("a")) # as_str(V("b"))

\* two values of equal content, built by different constructors, were hashed
C3_WitnessEqual ==
    /\ Called("hash")
    /\ Bound("a") /\ Bound("b")
    /\ as_str(V("a")) = as_str(V("b"))
    /\ Len(as_str(V("a"))) > 0

\* C4: the derived ordering of two constructed values of one capacity is
\* the lexicographic ordering of their contents.
C4_CmpByContent ==
    /\ Called("cmp") =>
          res.out = str_cmp(as_str(V(res.slot)), as_str(V(Other(res.slot))))
    /\ (Bound("a") /\ Bound("b")) =>
          derived_cmp(V("a"), V("b")) = str_cmp(as_str(V("a")), as_str(V("b")))

\* a content that is a proper prefix of the other, which goes on with a NUL
\* where the first has its padding, was compared and found Less
C4_Witness ==
    /\ Called("cmp")
    /\ res.out = "Less"
    /\ as_str(V(res.slot)) = <<97>>
    /\ as_str(V(Other(res.slot))) = <<97, 0>>

\* C5, as stated: for every N, FixStr::<N>::default() exists (and is the
\* empty container: is_empty(), len() = 0, an empty rendering).  The type
\* implements no Default, so there is no value the rest of the claim could
\* be about.
C5_DefaultExists == "Default" \in Traits(N)

\* C6, as stated: the Debug rendering of a value built from t is
\* FixStr("<t>"): the type name and the quoted content, nothing else.
C6_DebugQuotedContent ==
    Called("debug") =>
        res.out = <<Lit("FixStr"), Lit("("), Quoted(as_str(V(res.slot))), Lit(")")>>

\* C7: new_unchecked(s) returns the value of new(s) when new(s) is Some;
\* when it is None it returns nothing and panics with the message
\* "String '<s>' (len=<len>) exceeds capacity <N>", and no call follows.
C7_NewUncheckedPanics ==
    Called("new_unchecked") =>
        IF new(res.input).some
        THEN /\ ~res.out.panic
             /\ res.out.v = new(res.input).v
             /\ val[res.slot] = Some(new(res.input).v)
             /\ pc = "run"
        ELSE /\ res.out.panic
             /\ res.out.msg = <<Lit("String '"), Str(res.input), Lit("' (len="),
                                Int10(Len(res.input)), Lit(") exceeds capacity "),
                                Int10(N)>>
             /\ ~Bound(res.slot)
             /\ pc = "panicked"
             /\ ~ENABLED Next

\* capacity 1 and "aa": the panic, with the message of len=2 and capacity 1
C7_Witness ==
    /\ Called("new_unchecked")
    /\ N = 1
    /\ res.input = <<97, 97>>
    /\ res.out.panic
    /\ res.out.msg[4] = Int10(2)
    /\ res.out.msg[6] = Int10(1)
    /\ pc = "panicked"

\* the message of an error: it holds the text, its length and the capacity
Describes(e, s) ==
    /\ \E i \in DOMAIN e : e[i] = Str(s)
    /\ \E i \in DOMAIN e : e[i] = Int10(Len(s))
    /\ \E i \in DOMAIN e : e[i] = Int10(N)

\* C8: TryFrom<&str> and TryFrom<String> return Ok(v) exactly when new
\* returns Some(v), and otherwise an Err whose message holds the text, its
\* octet length and N; the String variant returns what the &str variant does.
C8_TryFromIsNew ==
    /\ (Called("try_from_str") \/ Called("try_from_string")) =>
          /\ res.out.ok <=> new(res.input).some
          /\ res.out.ok => res.out.v = new(res.input).v
          /\ res.out.ok => val[res.slot] = Some(new(res.input).v)
          /\ ~res.out.ok => Describes(res.out.e, res.input)
    /\ Called("try_from_string") => res.out = try_from_str(res.input)

\* a String one octet too long for the capacity was refused with an Err
C8_Witness ==
    /\ Called("try_from_string")
    /\ Len(res.input) = N + 1
    /\ ~res.out.ok
    /\ Describes(res.out.e, res.input)

\* every octet of s is a whole character
SingleOctetChars(s) == \A i \in DOMAIN s : s[i] < 128

\* C9: char_len() <= len(), with equality exactly when every character of
\* the content is one octet.
C9_CharLenLeLen ==
    /\ Called("char_len") =>
          /\ res.out <= len(V(res.slot))
          /\ (res.out = len(V(res.slot))) <=> SingleOctetChars(src[res.slot])
    /\ \A x \in Slots : Bound(x) =>
          /\ char_len(V(x)) <= len(V(x))
          /\ (char_len(V(x)) = len(V(x))) <=> SingleOctetChars(as_str(V(x)))

\* the text of the one character U+00E9: two octets, one character
C9_Witness ==
    /\ Called("char_len")
    /\ src[res.slot] = <<195, 169>>
    /\ res.out = 1
    /\ len(V(res.slot)) = 2

\* the representation of the value bound to x, constructed from src[x]
RepOk(x) ==
    LET v == V(x)
    IN  /\ v.len <= N
        /\ v.len <= U8Max
        /\ Len(v.inline) = N
        /\ v.len = Len(src[x])
        /\ SubSeq(v.inline, 1, v.len) = src[x]
        /\ \A i \in (v.len + 1)..N : v.inline[i] = 0

\* C10: every value bound through any constructor or copy has len <= N,
\* len <= 255, len the octet length of its input, inline[0..len] the octets
\* of its input and inline[len..N] all zero; and no step changes a bound
\* value.
C10_Representation ==
    /\ [](\A x \in Slots : Bound(x) => RepOk(x))
    /\ [][\A x \in Slots : Bound(x) => val'[x] = val[x]]_vars

\* a copy of a value of 255 octets in a buffer of 256
C10_Witness ==
    /\ Called("copy")
    /\ N = U8Max + 1
    /\ V(res.slot).len = U8Max
    /\ V(res.slot) = V(Other(res.slot))
    /\ RepOk(res.slot)

=============================================================================
